---- MODULE Spec2Model ----
(***************************************************************************)
(* Vectorised distribution evaluators of extraDistr (categorical,          *)
(* multinomial, Kumaraswamy, power, GEV, discrete normal).                 *)
(*                                                                         *)
(* A double is a term of exact real arithmetic: a rational <<"r", n, d>>,  *)
(* a special value (NaN, NA, +Inf, -Inf) or an unevaluated application of  *)
(* exp, log, pow, +, *, / to such terms.  Rationals on a dyadic grid are   *)
(* exact in IEEE arithmetic, so `sum == 1` and `floor(x) == x` mean in     *)
(* the model what they mean in the code.                                   *)
(***************************************************************************)
EXTENDS Integers, Sequences, FiniteSets, TLC

\* ------------------------------------------------------------------ bounds
\* longest caller array (x, p, size, a parameter vector)
MaxLen == 2
\* most rows of a probability matrix
MaxRows == 2
\* largest multinomial size
MaxSize == 2

\* ------------------------------------------------------- double arithmetic
Abs(n) == IF n < 0 THEN 0 - n ELSE n

RECURSIVE GCD(_, _)
GCD(m, n) == IF n = 0 THEN m ELSE GCD(n, m % n)

Rat(n, d) ==
  LET s == IF d < 0 THEN 0 - 1 ELSE 1
      g == GCD(Abs(n), Abs(d))
  IN  <<"r", (s * n) \div g, (s * d) \div g>>

NaN == <<"nan">>
NA_REAL == <<"na">>
PosInf == <<"pinf">>
NegInf == <<"ninf">>
Zero == <<"r", 0, 1>>
One == <<"r", 1, 1>>
Num(n) == <<"r", n, 1>>

IsRat(t) == t[1] = "r"
ISNAN(t) == t[1] = "nan" \/ t[1] = "na"
IsInf(t) == t[1] = "pinf" \/ t[1] = "ninf"

\* sign of q - e for a rational q (2.718281 < e < 2.718282)
CmpE(t) ==
  CASE IsRat(t) /\ t[2] * 1000000 <= t[3] * 2718281 -> 0 - 1
    [] IsRat(t) /\ t[2] * 1000000 >= t[3] * 2718282 -> 1
    [] t[1] = "ninf" -> 0 - 1
    [] t[1] = "pinf" -> 1

\* Sgn(t): sign of a non-NaN term; Cmp1(t): sign of t - 1; 2 where the
\* term's form does not decide it.
Flip(c) == IF c = 2 THEN 2 ELSE 0 - c
Times(c, d) == IF c = 0 \/ d = 0 THEN 0 ELSE IF c = 2 \/ d = 2 THEN 2 ELSE c * d

RECURSIVE Sgn(_), Cmp1(_)
Sgn(t) ==
  CASE t[1] = "r" -> IF t[2] < 0 THEN 0 - 1 ELSE IF t[2] = 0 THEN 0 ELSE 1
    [] t[1] = "pinf" -> 1
    [] t[1] = "ninf" -> 0 - 1
    [] t[1] = "exp" -> 1
    [] t[1] = "log" -> Cmp1(t[2])
    [] t[1] = "om" -> Flip(Cmp1(t[2]))
    [] t[1] = "neg" -> Flip(Sgn(t[2]))
    [] t[1] = "pow" -> 1
    [] t[1] = "mul" -> Times(Sgn(t[2]), Sgn(t[3]))
    [] t[1] = "div" -> Times(Sgn(t[2]), Sgn(t[3]))
    [] t[1] = "add" -> IF Sgn(t[2]) = Sgn(t[3]) THEN Sgn(t[2]) ELSE 2
    [] OTHER -> 2

Cmp1(t) ==
  CASE t[1] = "r" -> IF t[2] < t[3] THEN 0 - 1 ELSE IF t[2] = t[3] THEN 0 ELSE 1
    [] t[1] = "pinf" -> 1
    [] t[1] = "ninf" -> 0 - 1
    [] t[1] = "exp" -> Sgn(t[2])
    [] t[1] = "om" -> Flip(Sgn(t[2]))
    [] t[1] = "log" /\ (IsRat(t[2]) \/ IsInf(t[2])) -> CmpE(t[2])
    [] OTHER -> IF Sgn(t) = 2 \/ Sgn(t) = 1 THEN 2 ELSE 0 - 1

\* the sign where it is decided; no value otherwise
SgnK(t) == CASE Sgn(t) # 2 -> Sgn(t)

\* a < b.  Decided exactly between rationals and against 0, 1 and the
\* infinities; any comparison with NaN is false, as in IEEE arithmetic.
\* exp is increasing and negation decreasing.  It has no value where the
\* terms' forms do not decide it.
RECURSIVE Lt(_, _)
Lt(a, b) ==
  CASE ISNAN(a) \/ ISNAN(b) -> FALSE
    [] ~ISNAN(a) /\ ~ISNAN(b) /\ IsRat(a) /\ IsRat(b) -> a[2] * b[3] < b[2] * a[3]
    [] ~ISNAN(a) /\ ~ISNAN(b) /\ ~(IsRat(a) /\ IsRat(b)) /\ a = b -> FALSE
    [] ~ISNAN(a) /\ ~ISNAN(b) /\ ~(IsRat(a) /\ IsRat(b)) /\ a # b
         /\ Sgn(a) # 2 /\ Sgn(b) # 2 /\ Sgn(a) # Sgn(b) -> Sgn(a) < Sgn(b)
    [] ~ISNAN(a) /\ ~ISNAN(b) /\ ~(IsRat(a) /\ IsRat(b)) /\ a # b
         /\ Sgn(a) = 1 /\ Sgn(b) = 1
         /\ Cmp1(a) # 2 /\ Cmp1(b) # 2 /\ Cmp1(a) # Cmp1(b) -> Cmp1(a) < Cmp1(b)
    [] ~ISNAN(a) /\ ~ISNAN(b) /\ a # b /\ a[1] = "exp" /\ b[1] = "exp" -> Lt(a[2], b[2])
    [] ~ISNAN(a) /\ ~ISNAN(b) /\ a # b /\ a[1] = "neg" /\ b[1] = "neg" -> Lt(b[2], a[2])
    [] ~ISNAN(a) /\ ~ISNAN(b) /\ a[1] = "neg" /\ IsRat(b) -> Lt(Rat(0 - b[2], b[3]), a[2])
    [] ~ISNAN(a) /\ ~ISNAN(b) /\ IsRat(a) /\ b[1] = "neg" -> Lt(b[2], Rat(0 - a[2], a[3]))

Gt(a, b) == Lt(b, a)
Le(a, b) == ~ISNAN(a) /\ ~ISNAN(b) /\ ~Lt(b, a)
Ge(a, b) == Le(b, a)

\* -a
Neg(a) ==
  CASE ISNAN(a) -> a
    [] IsRat(a) -> Rat(0 - a[2], a[3])
    [] a[1] = "pinf" -> NegInf
    [] a[1] = "ninf" -> PosInf
    [] a[1] = "neg" -> a[2]
    [] OTHER -> <<"neg", a>>

\* a + b
Add(a, b) ==
  CASE ISNAN(a) -> a
    [] ~ISNAN(a) /\ ISNAN(b) -> b
    [] ~ISNAN(a) /\ ~ISNAN(b) /\ IsInf(a) /\ IsInf(b) -> IF a = b THEN a ELSE NaN
    [] ~ISNAN(a) /\ ~ISNAN(b) /\ IsInf(a) /\ ~IsInf(b) -> a
    [] ~ISNAN(a) /\ ~ISNAN(b) /\ ~IsInf(a) /\ IsInf(b) -> b
    [] IsRat(a) /\ IsRat(b) -> Rat(a[2] * b[3] + b[2] * a[3], a[3] * b[3])
    [] OTHER -> IF a = Zero THEN b ELSE IF b = Zero THEN a ELSE <<"add", a, b>>

\* 1 - a (the tail complement)
OneMinus(a) ==
  CASE ISNAN(a) -> a
    [] IsRat(a) -> Rat(a[3] - a[2], a[3])
    [] a[1] = "pinf" -> NegInf
    [] a[1] = "ninf" -> PosInf
    [] a[1] = "om" -> a[2]
    [] OTHER -> <<"om", a>>

\* a - b
Sub(a, b) == IF a = One THEN OneMinus(b) ELSE Add(a, Neg(b))

\* a * b
Mul(a, b) ==
  CASE ISNAN(a) -> a
    [] ~ISNAN(a) /\ ISNAN(b) -> b
    [] ~ISNAN(a) /\ ~ISNAN(b) /\ (IsInf(a) \/ IsInf(b)) ->
         IF SgnK(a) * SgnK(b) = 0 THEN NaN
         ELSE IF SgnK(a) * SgnK(b) > 0 THEN PosInf ELSE NegInf
    [] IsRat(a) /\ IsRat(b) -> Rat(a[2] * b[2], a[3] * b[3])
    [] OTHER -> IF a = Zero \/ b = Zero THEN Zero
                ELSE IF a = One THEN b ELSE IF b = One THEN a ELSE <<"mul", a, b>>

\* a / b
Div(a, b) ==
  CASE ISNAN(a) -> a
    [] ~ISNAN(a) /\ ISNAN(b) -> b
    [] ~ISNAN(a) /\ ~ISNAN(b) /\ IsInf(a) ->
         IF IsInf(b) THEN NaN
         ELSE IF SgnK(a) * SgnK(b) >= 0 THEN a ELSE Neg(a)
    [] ~ISNAN(a) /\ ~ISNAN(b) /\ ~IsInf(a) /\ IsInf(b) -> Zero
    [] IsRat(a) /\ IsRat(b) ->
         IF b[2] # 0 THEN Rat(a[2] * b[3], a[3] * b[2])
         ELSE IF a[2] = 0 THEN NaN ELSE IF a[2] > 0 THEN PosInf ELSE NegInf
    [] OTHER -> IF b = One THEN a ELSE <<"div", a, b>>

\* std::exp
Exp(a) ==
  CASE ISNAN(a) -> a
    [] a[1] = "ninf" -> Zero
    [] a[1] = "pinf" -> PosInf
    [] a = Zero -> One
    [] a[1] = "log" -> a[2]
    [] OTHER -> <<"exp", a>>

\* std::log
Log(a) ==
  CASE ISNAN(a) -> a
    [] a[1] = "pinf" -> PosInf
    [] a[1] = "ninf" -> NaN
    [] a = Zero -> NegInf
    [] a = One -> Zero
    [] a[1] = "exp" -> a[2]
    [] OTHER -> IF Sgn(a) = 0 - 1 THEN NaN ELSE <<"log", a>>

RECURSIVE IntPow(_, _)
IntPow(a, n) == IF n = 0 THEN One ELSE Mul(a, IntPow(a, n - 1))

\* std::pow(a, e): exact for a rational base and an integer exponent
Pow(a, e) ==
  CASE ISNAN(a) -> IF e = Zero THEN One ELSE a
    [] ~ISNAN(a) /\ ISNAN(e) -> IF a = One THEN One ELSE e
    [] ~ISNAN(a) /\ ~ISNAN(e) /\ e = Zero -> One
    [] ~ISNAN(a) /\ ~ISNAN(e) /\ e # Zero /\ a = One -> One
    [] ~ISNAN(a) /\ ~ISNAN(e) /\ e # Zero /\ a # One /\ IsInf(e) ->
         IF Lt(One, a) = (e = PosInf) THEN PosInf ELSE Zero
    [] ~ISNAN(a) /\ ~ISNAN(e) /\ e # Zero /\ a # One /\ ~IsInf(e) /\ a = PosInf ->
         IF SgnK(e) > 0 THEN PosInf ELSE Zero
    [] ~ISNAN(a) /\ ~ISNAN(e) /\ e # Zero /\ a # One /\ ~IsInf(e) /\ a = Zero ->
         IF SgnK(e) > 0 THEN Zero ELSE PosInf
    [] OTHER ->
         IF IsRat(a) /\ IsRat(e) /\ e[3] = 1
         THEN IF e[2] > 0 THEN IntPow(a, e[2]) ELSE Div(One, IntPow(a, 0 - e[2]))
         ELSE IF e = One THEN a
         ELSE IF Sgn(a) = 0 - 1 THEN NaN ELSE <<"pow", a, e>>

\* std::floor(x) != x is false exactly for integers and the infinities
IsIntegral(t) == (IsRat(t) /\ t[3] = 1) \/ IsInf(t)

\* (int) x for a finite double: truncation toward zero
Trunc(t) == IF t[2] >= 0 THEN t[2] \div t[3] ELSE 0 - ((0 - t[2]) \div t[3])

Min(m, n) == IF m < n THEN m ELSE n
Max(m, n) == IF m > n THEN m ELSE n

\* ------------------------------------------------------------------- state
VARIABLES
  mem,       \* the caller's arguments, by the name the callee gives them
  pc,        \* "ready", "once" (one call returned), "twice"
  call,      \* the last call: function, flags, and p as the caller passed it
  out,       \* the vector the last call returned
  prev,      \* the vector the call before it returned
  reads,     \* element reads of the last call: <<array, i, index, length>>
  warnings,  \* Rcpp::warning calls of the last call
  draws      \* random draws of the last call

vars == <<mem, pc, call, out, prev, reads, warnings, draws>>

NoArrays ==
  [x |-> <<>>, p |-> <<>>, n |-> 0, prob |-> <<>>, size |-> <<>>, a |-> <<>>, b |-> <<>>,
   alpha |-> <<>>, beta |-> <<>>, mu |-> <<>>, sigma |-> <<>>, xi |-> <<>>,
   lower_tail |-> TRUE, log_prob |-> FALSE]

NoCall == [fn |-> "none", given |-> <<>>, past |-> <<>>, nan_int |-> 0]

\* sequences of length 1..n over S
Arrays(S, n) == UNION {[1..m -> S] : m \in 1..n}

\* what a read past the end of a double array can yield
Garbage == {Zero, One, Num(2)}
\* R's NA_integer_ is INT_MIN
NA_INTEGER == (0 - 2147483647) - 1
\* (int) NAN is undefined: x86 conversion yields INT_MIN, constant folding 0
IntOfNaN == {NA_INTEGER, 0}

\* positions of a 0-based loop i < hi that lie past an array of length n
Past(n, hi) == {i \in 0..(hi - 1) : i >= n}

\* g: the values the call read past the end of its first array; nanInt: what
\* (int) NAN came to in it
Returns(fn, g, nanInt, res) ==
  /\ call' = [fn |-> fn, given |-> mem.p, past |-> g, nan_int |-> nanInt]
  /\ out' = res
  /\ prev' = out
  /\ pc' = IF pc = "ready" THEN "once" ELSE "twice"

\* p[i] = f(p[i]) for every element of a vector
Each(f(_), v) == [i \in DOMAIN v |-> f(v[i])]

\* ------------------------------------------------------------- categorical
\* while (j < hi) { if (row[j] < 0 || row[j] > 1) { wrong_p = true; break; }
\*                  sum += row[j]; j++; }
RECURSIVE ScanRow(_, _, _, _)
ScanRow(row, j, hi, sum) ==
  IF j >= hi THEN [j |-> j, sum |-> sum, wrong |-> FALSE]
  ELSE IF Lt(row[j + 1], Zero) \/ Gt(row[j + 1], One)
       THEN [j |-> j, sum |-> sum, wrong |-> TRUE]
       ELSE ScanRow(row, j + 1, hi, Add(sum, row[j + 1]))

\* the same loop under the condition (cs_prob <= target && j < k)
RECURSIVE ScanUntilLe(_, _, _, _, _)
ScanUntilLe(row, j, k, cs_prob, target) ==
  IF ~(Le(cs_prob, target) /\ j < k) THEN [j |-> j, sum |-> cs_prob, wrong |-> FALSE]
  ELSE IF Lt(row[j + 1], Zero) \/ Gt(row[j + 1], One)
       THEN [j |-> j, sum |-> cs_prob, wrong |-> TRUE]
       ELSE ScanUntilLe(row, j + 1, k, Add(cs_prob, row[j + 1]), target)

\* the same loop under the condition (cs_prob < target && j < k)
RECURSIVE ScanUntil(_, _, _, _, _)
ScanUntil(row, j, k, cs_prob, target) ==
  IF ~(Lt(cs_prob, target) /\ j < k) THEN [j |-> j, sum |-> cs_prob, wrong |-> FALSE]
  ELSE IF Lt(row[j + 1], Zero) \/ Gt(row[j + 1], One)
       THEN [j |-> j, sum |-> cs_prob, wrong |-> TRUE]
       ELSE ScanUntil(row, j + 1, k, Add(cs_prob, row[j + 1]), target)

\* body of cpp_dcat's loop for the value xv read as x[i]
dcat_elem(xv, row, k) ==
  LET s == ScanRow(row, 0, k, Zero)
  IN  IF s.sum # One \/ s.wrong THEN NaN
      ELSE IF Lt(xv, One) \/ Gt(xv, Num(k)) \/ ~IsIntegral(xv) THEN Zero
      ELSE row[Trunc(Sub(xv, One)) + 1]

\* whether cpp_dcat's loop body reads x[i]: only past the validity test
dcat_reads_x(row, k) ==
  LET s == ScanRow(row, 0, k, Zero) IN ~(s.sum # One \/ s.wrong)

\* body of cpp_pcat's loop for the value xv read as x[i]
pcat_elem(xv, row, k) ==
  IF Lt(xv, One) THEN Zero
  ELSE IF Gt(xv, Num(k)) THEN One
  ELSE LET s1 == ScanRow(row, 0, Min(Trunc(xv), k), Zero)
           s2 == ScanRow(row, s1.j, k, s1.sum)
       IN  IF s2.sum # One \/ s1.wrong \/ s2.wrong THEN NaN ELSE s1.sum

\* cpp_qcat's loop body without the p[i] == 0 case
qcat_elem_nozero(pv, row, k, nanInt) ==
  IF Lt(pv, Zero) \/ Gt(pv, One) THEN nanInt
  ELSE LET s1 == ScanUntil(row, 0, k, Zero, pv)
           s2 == ScanRow(row, s1.j, k, s1.sum)
       IN  IF s2.sum # One \/ s1.wrong \/ s2.wrong THEN nanInt ELSE s1.j

\* body of cpp_qcat's loop for the value pv read as p[i]; nanInt is (int) NAN
qcat_elem(pv, row, k, nanInt) ==
  IF Lt(pv, Zero) \/ Gt(pv, One) THEN nanInt
  ELSE LET s1 == ScanUntil(row, 0, k, Zero, pv)
           q == IF pv = Zero THEN 1 ELSE s1.j
           s2 == ScanRow(row, s1.j, k, s1.sum)
       IN  IF s2.sum # One \/ s1.wrong \/ s2.wrong THEN nanInt ELSE q

\* body of cpp_rcat's loop for the uniform draw u
rcat_elem(u, row, k, nanInt) ==
  LET s1 == ScanUntil(row, 0, k, Zero, u)
      s2 == ScanRow(row, s1.j, k, s1.sum)
  IN  IF s2.sum # One \/ s1.wrong \/ s2.wrong THEN nanInt ELSE s1.j

ncol(m) == Len(m[1])

cpp_dcat ==
  LET n == Len(mem.x)
      log_prob == mem.log_prob
      np == Len(mem.prob)
      Nmax == Max(n, np)
      k == ncol(mem.prob)
  IN  \E g \in [Past(n, Nmax) -> Garbage] :
        LET xv(i) == IF i < n THEN mem.x[i + 1] ELSE g[i]
            pr == [i \in 1..Nmax |-> dcat_elem(xv(i - 1), mem.prob[((i - 1) % np) + 1], k)]
        IN  /\ Returns("dcat", g, 0, IF log_prob THEN Each(Log, pr) ELSE pr)
            /\ reads' = {<<"prob", i, i % np, np>> : i \in 0..(Nmax - 1)}
                 \cup {<<"x", i, i, n>> :
                         i \in {h \in 0..(Nmax - 1) : dcat_reads_x(mem.prob[(h % np) + 1], k)}}
            /\ warnings' = 0
            /\ draws' = <<>>
            /\ UNCHANGED mem

cpp_pcat ==
  LET n == Len(mem.x)
      lower_tail == mem.lower_tail
      log_prob == mem.log_prob
      np == Len(mem.prob)
      Nmax == Max(n, np)
      k == ncol(mem.prob)
  IN  \E g \in [Past(n, Nmax) -> Garbage] :
        LET xv(i) == IF i < n THEN mem.x[i + 1] ELSE g[i]
            p0 == [i \in 1..Nmax |-> pcat_elem(xv(i - 1), mem.prob[((i - 1) % np) + 1], k)]
            p1 == IF ~lower_tail THEN Each(OneMinus, p0) ELSE p0
            p2 == IF log_prob THEN Each(Log, p1) ELSE p1
        IN  /\ Returns("pcat", g, 0, p2)
            /\ reads' = {<<"x", i, i, n>> : i \in 0..(Nmax - 1)}
                 \cup {<<"prob", i, i % np, np>> :
                         i \in {h \in 0..(Nmax - 1) :
                                  ~(Lt(xv(h), One) \/ Gt(xv(h), Num(k)))}}
            /\ warnings' = 0
            /\ draws' = <<>>
            /\ UNCHANGED mem

cpp_qcat ==
  LET n == Len(mem.p)
      lower_tail == mem.lower_tail
      log_prob == mem.log_prob
      np == Len(mem.prob)
      Nmax == Max(n, np)
      k == ncol(mem.prob)
      \* p is the caller's vector itself: the two loops write into it
      p1 == IF log_prob THEN Each(Exp, mem.p) ELSE mem.p
      p2 == IF ~lower_tail THEN Each(OneMinus, p1) ELSE p1
  IN  \E g \in [Past(n, Nmax) -> Garbage], nanInt \in IntOfNaN :
        LET pv(i) == IF i < n THEN p2[i + 1] ELSE g[i]
            q == [i \in 1..Nmax |-> qcat_elem(pv(i - 1), mem.prob[((i - 1) % np) + 1], k, nanInt)]
        IN  /\ Returns("qcat", g, nanInt, q)
            /\ mem' = [mem EXCEPT !.p = p2]
            /\ reads' = {<<"p", i, i, n>> : i \in 0..(Nmax - 1)}
                 \cup {<<"prob", i, i % np, np>> :
                         i \in {h \in 0..(Nmax - 1) :
                                  ~(Lt(pv(h), Zero) \/ Gt(pv(h), One))}}
            /\ warnings' = 0
            /\ draws' = <<>>

\* R::runif(0, 1) never returns 0 or 1
UVals == {Rat(1, 4), Rat(3, 8), Rat(1, 2), Rat(3, 4)}

cpp_rcat ==
  LET n == mem.n
      np == Len(mem.prob)
      k == ncol(mem.prob)
  IN  \E u \in [1..n -> UVals], nanInt \in IntOfNaN :
        /\ Returns("rcat", <<>>, nanInt,
                   [i \in 1..n |-> rcat_elem(u[i], mem.prob[((i - 1) % np) + 1], k, nanInt)])
        /\ reads' = {<<"prob", i, i % np, np>> : i \in 0..(n - 1)}
        /\ warnings' = 0
        /\ draws' = u
        /\ UNCHANGED mem

\* rows of three categories: valid ones, and rows that fail in the first,
\* the middle or the last entry, by range or by sum
ProbRows ==
  { <<Rat(1, 4), Rat(1, 4), Rat(1, 2)>>,
    <<Rat(1, 4), Rat(3, 4), Zero>>,
    <<Rat(1, 2), Rat(1, 4), Rat(1, 2)>>,
    <<Rat(1, 2), Rat(1, 2), Rat(5, 4)>>,
    <<Rat(0 - 1, 4), Rat(3, 4), Rat(1, 2)>> }

\* category values: below, inside, fractional and above the support
XVals == {Zero, Rat(5, 2), Num(3), Num(4)}

\* probabilities, a value above 1, and log-probabilities
PVals == {Zero, Rat(1, 2), Rat(5, 4), Log(Rat(1, 2))}

InitCall ==
  /\ pc = "ready"
  /\ call = NoCall
  /\ out = <<>>
  /\ prev = <<>>
  /\ reads = {}
  /\ warnings = 0
  /\ draws = <<>>

\* the arguments of one call: a first array x or p with the two flags, or the
\* length n of a sample
FirstArg(XS, PS) ==
  {[NoArrays EXCEPT !.x = v, !.lower_tail = lt, !.log_prob = lp] :
     v \in Arrays(XS, MaxLen), lt \in BOOLEAN, lp \in BOOLEAN}
  \cup {[NoArrays EXCEPT !.p = v, !.lower_tail = lt, !.log_prob = lp] :
     v \in Arrays(PS, MaxLen), lt \in BOOLEAN, lp \in BOOLEAN}
  \cup {[NoArrays EXCEPT !.n = n] : n \in 1..MaxLen}

InitCat ==
  /\ \E m \in Arrays(ProbRows, MaxRows), f \in FirstArg(XVals, PVals) :
       mem = [f EXCEPT !.prob = m]
  /\ InitCall

\* a call is made with the arguments it takes: dcat has no lower_tail
Has(arg) == mem[arg] # <<>>

Call_dcat == pc = "ready" /\ Has("x") /\ Has("prob") /\ mem.lower_tail /\ cpp_dcat
Call_pcat == pc = "ready" /\ Has("x") /\ Has("prob") /\ cpp_pcat
Call_qcat == pc = "ready" /\ Has("p") /\ Has("prob") /\ cpp_qcat
Call_rcat == pc = "ready" /\ mem.n > 0 /\ Has("prob") /\ ~Has("size") /\ cpp_rcat

NextCat == Call_dcat \/ Call_pcat \/ Call_qcat \/ Call_rcat

SpecCat == InitCat /\ [][NextCat]_vars

\* ------------------------------------------------------------- multinomial
RECURSIVE Factorial(_)
Factorial(n) == IF n <= 0 THEN 1 ELSE n * Factorial(n - 1)

\* lfactorial (declared in shared.h): log(x!), lgamma(x + 1) off the integers
lfactorial(t) ==
  IF IsRat(t) /\ t[3] = 1 /\ t[2] >= 0 THEN Log(Num(Factorial(t[2]))) ELSE <<"lfactorial", t>>

\* the loop over j of cpp_dmnom for one probability row and one count row
RECURSIVE dmnom_scan(_, _, _, _)
dmnom_scan(prow, xrow, j, acc) ==
  IF j >= Len(prow) THEN acc
  ELSE IF Lt(prow[j + 1], Zero) \/ Gt(prow[j + 1], One)
       THEN [acc EXCEPT !.wrong_p = TRUE]
  ELSE IF Lt(xrow[j + 1], Zero) \/ ~IsIntegral(xrow[j + 1])
       THEN [acc EXCEPT !.wrong_x = TRUE]
  ELSE dmnom_scan(prow, xrow, j + 1,
         [acc EXCEPT !.sum_p = Add(@, prow[j + 1]),
                     !.sum_x = Add(@, xrow[j + 1]),
                     !.prod_xfac = Add(@, lfactorial(xrow[j + 1])),
                     !.prod_pow_px = Add(@, Mul(Log(prow[j + 1]), xrow[j + 1]))])

\* body of cpp_dmnom's loop over i: the log-probability of one position
dmnom_elem(xrow, sz, prow) ==
  LET n_fac == lfactorial(sz)
      s == dmnom_scan(prow, xrow, 0,
             [sum_p |-> Zero, sum_x |-> Zero, prod_xfac |-> Zero, prod_pow_px |-> Zero,
              wrong_p |-> FALSE, wrong_x |-> FALSE])
  IN  IF ~IsIntegral(sz) \/ Lt(s.sum_x, Zero) \/ s.sum_x # sz \/ s.wrong_x THEN NegInf
      ELSE IF s.sum_p # One \/ s.wrong_p THEN NaN
      ELSE Add(Sub(n_fac, s.prod_xfac), s.prod_pow_px)

cpp_dmnom ==
  LET n == Len(mem.x)
      log_prob == mem.log_prob
      m == ncol(mem.x)
      k == ncol(mem.prob)
      np == Len(mem.prob)
      ns == Len(mem.size)
      Nmax == Max(n, Max(ns, np))
  IN  IF m # k
      THEN \* Rcpp::stop: no vector is returned
           /\ Returns("dmnom", <<>>, 0, <<"stop">>)
           /\ reads' = {}
           /\ warnings' = 0
           /\ draws' = <<>>
           /\ UNCHANGED mem
      ELSE LET lp == [i \in 1..Nmax |->
                        dmnom_elem(mem.x[((i - 1) % n) + 1], mem.size[((i - 1) % ns) + 1],
                                   mem.prob[((i - 1) % np) + 1])]
           IN  /\ Returns("dmnom", <<>>, 0,
                          IF ~log_prob THEN Each(Exp, lp) ELSE lp)
               /\ reads' = UNION {{<<"x", i, i % n, n>>, <<"size", i, i % ns, ns>>,
                                   <<"prob", i, i % np, np>>} : i \in 0..(Nmax - 1)}
               /\ warnings' = 0
               /\ draws' = <<>>
               /\ UNCHANGED mem

\* R::rbinom(size, pr) for 0 <= pr <= 1: what it may return
rbinom(sz, pr) == IF pr = Zero THEN {0} ELSE IF pr = One THEN {sz} ELSE 0..sz

\* m[li] of a NumericMatrix: the element at column-major offset li
LinearAt(m, li) == m[(li % Len(m)) + 1][(li \div Len(m)) + 1]

\* the success probability cpp_rmnom hands to rbinom at (i, j): prob[i % np]
rmnom_pr(i, j) == LinearAt(mem.prob, i % Len(mem.prob))

\* every run of cpp_rmnom's loop over j for output row i, from category j with
\* the budget size_left: the row x(i, .) before the validity test, the sum
\* and flag the test reads, and the draws made <<j, trials, pr, drawn>>
RECURSIVE rmnom_runs(_, _, _, _)
rmnom_runs(i, j, size_left, acc) ==
  LET row == mem.prob[(i % Len(mem.prob)) + 1]
      k == Len(row)
      last(r) == [r EXCEPT !.x = [c \in 1..k |-> IF c = k THEN size_left
                                                  ELSE IF c <= Len(r.x) THEN r.x[c] ELSE 0]]
  IN  IF j >= k - 1 THEN {last(acc)}
      ELSE IF Lt(row[j + 1], Zero) \/ Gt(row[j + 1], One)
           THEN {last([acc EXCEPT !.wrong_p = TRUE])}
      ELSE UNION { rmnom_runs(i, j + 1, size_left - d,
                     [acc EXCEPT !.sum_p = Add(@, row[j + 1]),
                                 !.x = Append(@, d),
                                 !.draws = Append(@, <<j, size_left, rmnom_pr(i, j), d>>)])
                   : d \in rbinom(size_left, rmnom_pr(i, j)) }

\* sequences s of length n with s[i] in S[i]
RECURSIVE Product(_, _)
Product(S, n) ==
  IF n = 0 THEN {<<>>} ELSE {Append(s, e) : s \in Product(S, n - 1), e \in S[n]}

cpp_rmnom ==
  LET n == mem.n
      k == ncol(mem.prob)
      ns == Len(mem.size)
      np == Len(mem.prob)
      runs == [i \in 1..n |->
                 rmnom_runs(i - 1, 0, Trunc(mem.size[((i - 1) % ns) + 1]),
                            [x |-> <<>>, sum_p |-> Zero, wrong_p |-> FALSE, draws |-> <<>>])]
  IN  \E rs \in Product(runs, n), nanInt \in IntOfNaN :
        /\ Returns("rmnom", <<>>, nanInt,
                   [i \in 1..n |-> IF rs[i].sum_p # One \/ rs[i].wrong_p
                                   THEN [c \in 1..k |-> nanInt] ELSE rs[i].x])
        /\ reads' = UNION {{<<"size", i, i % ns, ns>>, <<"prob", i, i % np, np>>}
                           : i \in 0..(n - 1)}
        /\ warnings' = 0
        /\ draws' = [i \in 1..n |-> rs[i].draws]
        /\ UNCHANGED mem

\* count rows of three categories; one negative, one fractional
XRows ==
  { <<One, One, Zero>>,
    <<One, One, One>>,
    <<Zero, Zero, Num(2)>>,
    <<One, Num(0 - 1), Num(2)>>,
    <<Rat(1, 2), Rat(1, 2), One>> }

\* a count matrix of two columns, for the column-count check
XShort == << <<One, One>> >>

SizeVals == {Num(s) : s \in 0..MaxSize} \cup {Rat(3, 2)}

InitMnom ==
  /\ \E m \in Arrays(ProbRows, MaxRows), sz \in Arrays(SizeVals, MaxLen) :
       \/ \E xm \in Arrays(XRows, MaxRows) \cup {XShort}, lp \in BOOLEAN :
            mem = [NoArrays EXCEPT !.prob = m, !.size = sz, !.x = xm, !.log_prob = lp]
       \/ \E n \in 1..MaxLen : mem = [NoArrays EXCEPT !.prob = m, !.size = sz, !.n = n]
  /\ InitCall

Call_dmnom == pc = "ready" /\ Has("x") /\ Has("size") /\ Has("prob") /\ cpp_dmnom
Call_rmnom == pc = "ready" /\ mem.n > 0 /\ Has("size") /\ Has("prob") /\ cpp_rmnom

NextMnom == Call_dmnom \/ Call_rmnom

SpecMnom == InitMnom /\ [][NextMnom]_vars

\* ------------------------------------------------- continuous families
\* v[i % n] for the 0-based loop index i
Recycle(v, i) == v[(i % Len(v)) + 1]

\* the reads v[i % n] of a loop i < hi
RecycledReads(name, v, hi) == {<<name, i, i % Len(v), Len(v)>> : i \in 0..(hi - 1)}

Max3(l, m, n) == Max(l, Max(m, n))

RECURSIVE Total(_, _)
Total(w, n) == IF n = 0 THEN 0 ELSE Total(w, n - 1) + w[n]

\* ------------------------------------------------------------- Kumaraswamy
cdf_kumar(x, a, b) ==
  IF Le(a, Zero) \/ Le(b, Zero) THEN NaN
  ELSE IF Ge(x, Zero) /\ Le(x, One) THEN Sub(One, Pow(Sub(One, Pow(x, a)), b))
  ELSE Zero

invcdf_kumar(p, a, b) ==
  IF Le(a, Zero) \/ Le(b, Zero) \/ Lt(p, Zero) \/ Gt(p, One) THEN NaN
  ELSE Pow(Sub(One, Pow(Sub(One, p), Div(One, b))), Div(One, a))

logpdf_kumar(x, a, b) ==
  IF Le(a, Zero) \/ Le(b, Zero) THEN NaN
  ELSE IF Ge(x, Zero) /\ Le(x, One)
       THEN Add(Add(Add(Log(a), Log(b)), Mul(Log(x), Sub(a, One))),
                Mul(Log(Sub(One, Pow(x, a))), Sub(b, One)))
  ELSE NegInf

cpp_dkumar ==
  LET Nmax == Max3(Len(mem.x), Len(mem.a), Len(mem.b))
      p0 == [i \in 1..Nmax |->
               logpdf_kumar(Recycle(mem.x, i - 1), Recycle(mem.a, i - 1), Recycle(mem.b, i - 1))]
  IN  /\ Returns("dkumar", <<>>, 0, IF ~mem.log_prob THEN Each(Exp, p0) ELSE p0)
      /\ reads' = RecycledReads("x", mem.x, Nmax) \cup RecycledReads("a", mem.a, Nmax)
                    \cup RecycledReads("b", mem.b, Nmax)
      /\ warnings' = 0
      /\ draws' = <<>>
      /\ UNCHANGED mem

cpp_pkumar ==
  LET Nmax == Max3(Len(mem.x), Len(mem.a), Len(mem.b))
      p0 == [i \in 1..Nmax |->
               cdf_kumar(Recycle(mem.x, i - 1), Recycle(mem.a, i - 1), Recycle(mem.b, i - 1))]
      p1 == IF ~mem.lower_tail THEN Each(OneMinus, p0) ELSE p0
      p2 == IF mem.log_prob THEN Each(Log, p1) ELSE p1
  IN  /\ Returns("pkumar", <<>>, 0, p2)
      /\ reads' = RecycledReads("x", mem.x, Nmax) \cup RecycledReads("a", mem.a, Nmax)
                    \cup RecycledReads("b", mem.b, Nmax)
      /\ warnings' = 0
      /\ draws' = <<>>
      /\ UNCHANGED mem

cpp_qkumar ==
  LET Nmax == Max3(Len(mem.p), Len(mem.a), Len(mem.b))
      \* p is the caller's vector itself: the two loops write into it
      p1 == IF mem.log_prob THEN Each(Exp, mem.p) ELSE mem.p
      p2 == IF ~mem.lower_tail THEN Each(OneMinus, p1) ELSE p1
      q == [i \in 1..Nmax |->
              invcdf_kumar(Recycle(p2, i - 1), Recycle(mem.a, i - 1), Recycle(mem.b, i - 1))]
  IN  /\ Returns("qkumar", <<>>, 0, q)
      /\ mem' = [mem EXCEPT !.p = p2]
      /\ reads' = RecycledReads("p", mem.p, Nmax) \cup RecycledReads("a", mem.a, Nmax)
                    \cup RecycledReads("b", mem.b, Nmax)
      /\ warnings' = 0
      /\ draws' = <<>>

cpp_rkumar ==
  LET n == mem.n
  IN  \E u \in [1..n -> UVals] :
        /\ Returns("rkumar", <<>>, 0,
                   [i \in 1..n |->
                      invcdf_kumar(u[i], Recycle(mem.a, i - 1), Recycle(mem.b, i - 1))])
        /\ reads' = RecycledReads("a", mem.a, n) \cup RecycledReads("b", mem.b, n)
        /\ warnings' = 0
        /\ draws' = u
        /\ UNCHANGED mem

\* ------------------------------------------------------------------- Power
invcdf_power(p, alpha, beta) ==
  IF Lt(p, Zero) \/ Gt(p, One) THEN NaN
  ELSE Mul(alpha, Pow(p, Div(One, beta)))

logpdf_power(x, alpha, beta) ==
  IF Lt(x, Zero) THEN NaN
  ELSE IF Gt(x, Zero) /\ Lt(x, alpha)
       THEN Sub(Add(Log(beta), Mul(Log(x), Sub(beta, One))), Mul(Log(alpha), beta))
  ELSE NegInf

logcdf_power(x, alpha, beta) ==
  IF Lt(x, Zero) THEN NaN
  ELSE IF Gt(x, Zero) /\ Lt(x, alpha)
       THEN Sub(Mul(Log(x), beta), Mul(Log(alpha), beta))
  ELSE IF Ge(x, alpha) THEN Zero
  ELSE NegInf

cpp_dpower ==
  LET Nmax == Max3(Len(mem.x), Len(mem.alpha), Len(mem.beta))
      p0 == [i \in 1..Nmax |->
               logpdf_power(Recycle(mem.x, i - 1), Recycle(mem.alpha, i - 1),
                            Recycle(mem.beta, i - 1))]
  IN  /\ Returns("dpower", <<>>, 0, IF ~mem.log_prob THEN Each(Exp, p0) ELSE p0)
      /\ reads' = RecycledReads("x", mem.x, Nmax) \cup RecycledReads("alpha", mem.alpha, Nmax)
                    \cup RecycledReads("beta", mem.beta, Nmax)
      /\ warnings' = 0
      /\ draws' = <<>>
      /\ UNCHANGED mem

cpp_ppower ==
  LET Nmax == Max3(Len(mem.x), Len(mem.alpha), Len(mem.beta))
      p0 == [i \in 1..Nmax |->
               logcdf_power(Recycle(mem.x, i - 1), Recycle(mem.alpha, i - 1),
                            Recycle(mem.beta, i - 1))]
      \* the complement is taken of the logarithm, before the exponential
      p1 == IF ~mem.lower_tail THEN Each(OneMinus, p0) ELSE p0
      p2 == IF ~mem.log_prob THEN Each(Exp, p1) ELSE p1
  IN  /\ Returns("ppower", <<>>, 0, p2)
      /\ reads' = RecycledReads("x", mem.x, Nmax) \cup RecycledReads("alpha", mem.alpha, Nmax)
                    \cup RecycledReads("beta", mem.beta, Nmax)
      /\ warnings' = 0
      /\ draws' = <<>>
      /\ UNCHANGED mem

cpp_qpower ==
  LET Nmax == Max3(Len(mem.p), Len(mem.alpha), Len(mem.beta))
      \* p is the caller's vector itself: the two loops write into it
      p1 == IF mem.log_prob THEN Each(Exp, mem.p) ELSE mem.p
      p2 == IF ~mem.lower_tail THEN Each(OneMinus, p1) ELSE p1
      q == [i \in 1..Nmax |->
              invcdf_power(Recycle(p2, i - 1), Recycle(mem.alpha, i - 1),
                           Recycle(mem.beta, i - 1))]
  IN  /\ Returns("qpower", <<>>, 0, q)
      /\ mem' = [mem EXCEPT !.p = p2]
      /\ reads' = RecycledReads("p", mem.p, Nmax) \cup RecycledReads("alpha", mem.alpha, Nmax)
                    \cup RecycledReads("beta", mem.beta, Nmax)
      /\ warnings' = 0
      /\ draws' = <<>>

cpp_rpower ==
  LET n == mem.n
  IN  \E u \in [1..n -> UVals] :
        /\ Returns("rpower", <<>>, 0,
                   [i \in 1..n |->
                      invcdf_power(u[i], Recycle(mem.alpha, i - 1), Recycle(mem.beta, i - 1))])
        /\ reads' = RecycledReads("alpha", mem.alpha, n) \cup RecycledReads("beta", mem.beta, n)
        /\ warnings' = 0
        /\ draws' = u
        /\ UNCHANGED mem

\* --------------------------------------------------------------------- GEV
\* each evaluator returns its value and the number of Rcpp::warning calls

\* rng_unif (declared in shared.h): a standard uniform draw
rng_unif == UVals

pdf_gev(x, mu, sigma, xi) ==
  IF ISNAN(x) \/ ISNAN(mu) \/ ISNAN(sigma) \/ ISNAN(xi) THEN [val |-> NA_REAL, warn |-> 0]
  ELSE IF Le(sigma, Zero) THEN [val |-> NaN, warn |-> 1]
  ELSE LET z == Div(Sub(x, mu), sigma)
           t == Add(One, Mul(xi, z))
       IN  IF Gt(t, Zero)
           THEN IF xi # Zero
                THEN [val |-> Mul(Mul(Div(One, sigma), Pow(t, Sub(Neg(One), Div(One, xi)))),
                                  Exp(Neg(Pow(t, Div(Neg(One), xi))))),
                      warn |-> 0]
                ELSE [val |-> Mul(Mul(Div(One, sigma), Exp(Neg(z))), Exp(Neg(Exp(Neg(z))))),
                      warn |-> 0]
           ELSE [val |-> Zero, warn |-> 0]

cdf_gev(x, mu, sigma, xi) ==
  IF ISNAN(x) \/ ISNAN(mu) \/ ISNAN(sigma) \/ ISNAN(xi) THEN [val |-> NA_REAL, warn |-> 0]
  ELSE IF Le(sigma, Zero) THEN [val |-> NaN, warn |-> 1]
  ELSE LET z == Div(Sub(x, mu), sigma)
           t == Add(One, Mul(xi, z))
       IN  IF Gt(t, Zero)
           THEN IF xi # Zero
                THEN [val |-> Exp(Neg(Pow(t, Div(Neg(One), xi)))), warn |-> 0]
                ELSE [val |-> Exp(Neg(Exp(Neg(z)))), warn |-> 0]
           ELSE [val |-> Zero, warn |-> 0]

\* mu - sigma/xi * (1 - pow(-log(p), -xi)), or mu - sigma * log(-log(p))
gev_quantile(p, mu, sigma, xi) ==
  IF xi # Zero
  THEN Sub(mu, Mul(Div(sigma, xi), Sub(One, Pow(Neg(Log(p)), Neg(xi)))))
  ELSE Sub(mu, Mul(sigma, Log(Neg(Log(p)))))

invcdf_gev(p, mu, sigma, xi) ==
  IF ISNAN(p) \/ ISNAN(mu) \/ ISNAN(sigma) \/ ISNAN(xi) THEN [val |-> NA_REAL, warn |-> 0]
  ELSE IF Le(sigma, Zero) \/ Lt(p, Zero) \/ Gt(p, One) THEN [val |-> NaN, warn |-> 1]
  ELSE IF p = One THEN [val |-> PosInf, warn |-> 0]
  ELSE [val |-> gev_quantile(p, mu, sigma, xi), warn |-> 0]

\* whether rng_gev returns before it draws
rng_gev_invalid(mu, sigma, xi) == ISNAN(mu) \/ ISNAN(sigma) \/ ISNAN(xi) \/ Le(sigma, Zero)

\* rng_gev for the draw u that rng_unif() returns in it
rng_gev(u, mu, sigma, xi) ==
  IF rng_gev_invalid(mu, sigma, xi) THEN [val |-> NA_REAL, warn |-> 1]
  ELSE [val |-> gev_quantile(u, mu, sigma, xi), warn |-> 0]

Vals(r) == [i \in DOMAIN r |-> r[i].val]
Warns(r) == Total([i \in DOMAIN r |-> r[i].warn], Len(r))

GevReads(first, v, hi) ==
  RecycledReads(first, v, hi) \cup RecycledReads("mu", mem.mu, hi)
    \cup RecycledReads("sigma", mem.sigma, hi) \cup RecycledReads("xi", mem.xi, hi)

cpp_dgev ==
  LET Nmax == Max(Max(Len(mem.x), Len(mem.mu)), Max(Len(mem.sigma), Len(mem.xi)))
      r == [i \in 1..Nmax |->
              pdf_gev(Recycle(mem.x, i - 1), Recycle(mem.mu, i - 1),
                      Recycle(mem.sigma, i - 1), Recycle(mem.xi, i - 1))]
  IN  /\ Returns("dgev", <<>>, 0, IF mem.log_prob THEN Each(Log, Vals(r)) ELSE Vals(r))
      /\ reads' = GevReads("x", mem.x, Nmax)
      /\ warnings' = Warns(r)
      /\ draws' = <<>>
      /\ UNCHANGED mem

cpp_pgev ==
  LET Nmax == Max(Max(Len(mem.x), Len(mem.mu)), Max(Len(mem.sigma), Len(mem.xi)))
      r == [i \in 1..Nmax |->
              cdf_gev(Recycle(mem.x, i - 1), Recycle(mem.mu, i - 1),
                      Recycle(mem.sigma, i - 1), Recycle(mem.xi, i - 1))]
      p1 == IF ~mem.lower_tail THEN Each(OneMinus, Vals(r)) ELSE Vals(r)
      p2 == IF mem.log_prob THEN Each(Log, p1) ELSE p1
  IN  /\ Returns("pgev", <<>>, 0, p2)
      /\ reads' = GevReads("x", mem.x, Nmax)
      /\ warnings' = Warns(r)
      /\ draws' = <<>>
      /\ UNCHANGED mem

cpp_qgev ==
  LET Nmax == Max(Max(Len(mem.p), Len(mem.mu)), Max(Len(mem.sigma), Len(mem.xi)))
      \* pp is a clone of p: the caller's vector is not written
      pp1 == IF mem.log_prob THEN Each(Exp, mem.p) ELSE mem.p
      pp2 == IF ~mem.lower_tail THEN Each(OneMinus, pp1) ELSE pp1
      r == [i \in 1..Nmax |->
              invcdf_gev(Recycle(pp2, i - 1), Recycle(mem.mu, i - 1),
                         Recycle(mem.sigma, i - 1), Recycle(mem.xi, i - 1))]
  IN  /\ Returns("qgev", <<>>, 0, Vals(r))
      /\ reads' = GevReads("p", mem.p, Nmax)
      /\ warnings' = Warns(r)
      /\ draws' = <<>>
      /\ UNCHANGED mem

cpp_rgev ==
  LET n == mem.n
      drawn(i) == ~rng_gev_invalid(Recycle(mem.mu, i - 1), Recycle(mem.sigma, i - 1),
                                   Recycle(mem.xi, i - 1))
  IN  \E u \in [{i \in 1..n : drawn(i)} -> rng_unif] :
        LET r == [i \in 1..n |->
                    rng_gev(IF drawn(i) THEN u[i] ELSE NaN, Recycle(mem.mu, i - 1),
                            Recycle(mem.sigma, i - 1), Recycle(mem.xi, i - 1))]
        IN  /\ Returns("rgev", <<>>, 0, Vals(r))
            /\ reads' = RecycledReads("mu", mem.mu, n) \cup RecycledReads("sigma", mem.sigma, n)
                          \cup RecycledReads("xi", mem.xi, n)
            /\ warnings' = Warns(r)
            /\ draws' = u
            /\ UNCHANGED mem

\* --------------------------------------------------------- discrete normal
\* R::pnorm(q, mu, sigma, true, false): the host's normal distribution function
pnorm(q, mu, sigma) == <<"pnorm", q, mu, sigma>>

pmf_dnorm(x, mu, sigma) ==
  IF Le(sigma, Zero) THEN NaN
  ELSE IF ~IsIntegral(x) THEN Zero
  ELSE Sub(pnorm(Add(x, One), mu, sigma), pnorm(x, mu, sigma))

cpp_ddnorm ==
  LET Nmax == Max3(Len(mem.x), Len(mem.mu), Len(mem.sigma))
      p0 == [i \in 1..Nmax |->
               pmf_dnorm(Recycle(mem.x, i - 1), Recycle(mem.mu, i - 1),
                         Recycle(mem.sigma, i - 1))]
  IN  /\ Returns("ddnorm", <<>>, 0, IF mem.log_prob THEN Each(Log, p0) ELSE p0)
      /\ reads' = RecycledReads("x", mem.x, Nmax) \cup RecycledReads("mu", mem.mu, Nmax)
                    \cup RecycledReads("sigma", mem.sigma, Nmax)
      /\ warnings' = 0
      /\ draws' = <<>>
      /\ UNCHANGED mem

\* ------------------------------------------- continuous families: harness
\* values below, at the ends of, inside and above the unit interval
XCont == {Num(0 - 1), Zero, Rat(1, 2), Num(2)}
\* probabilities, a value above 1, and a log-probability
PCont == {Zero, Rat(1, 2), Rat(5, 4), Log(Rat(1, 2))}
\* shape and scale parameters inside and outside their domains
AVals == {Zero, Num(2)}
BVals == {One, Num(2)}
AlphaVals == {One, Num(2)}
BetaVals == {One, Num(2)}
XGev == {Zero, Num(2)}
PGev == {Zero, Rat(1, 2), Rat(5, 4)}
MuVals == {Zero, One}
SigmaVals == {Zero, One}
XiVals == {Num(0 - 1), Zero, One}
XDnorm == {Zero, Rat(1, 2)}

KumarArgs(F) ==
  {[f EXCEPT !.a = a, !.b = b] :
     f \in F, a \in Arrays(AVals, MaxLen), b \in Arrays(BVals, MaxLen)}

PowerArgs(F) ==
  {[f EXCEPT !.alpha = alpha, !.beta = beta] :
     f \in F, alpha \in Arrays(AlphaVals, MaxLen), beta \in Arrays(BetaVals, MaxLen)}

GevArgs(F) ==
  {[f EXCEPT !.mu = mu, !.sigma = sigma, !.xi = xi] :
     f \in F, mu \in Arrays(MuVals, MaxLen), sigma \in Arrays(SigmaVals, MaxLen),
     xi \in Arrays(XiVals, MaxLen)}

DnormArgs ==
  {[NoArrays EXCEPT !.x = x, !.mu = mu, !.sigma = sigma, !.log_prob = lp] :
     x \in Arrays(XDnorm, MaxLen), mu \in Arrays(MuVals, MaxLen),
     sigma \in Arrays(SigmaVals, MaxLen), lp \in BOOLEAN}

InitCont ==
  /\ mem \in KumarArgs(FirstArg(XCont, PCont)) \cup PowerArgs(FirstArg(XCont, PCont))
               \cup GevArgs(FirstArg(XGev, PGev)) \cup DnormArgs
  /\ InitCall

Call_dkumar == pc = "ready" /\ Has("x") /\ Has("a") /\ Has("b") /\ mem.lower_tail /\ cpp_dkumar
Call_pkumar == pc = "ready" /\ Has("x") /\ Has("a") /\ Has("b") /\ cpp_pkumar
Call_qkumar == pc = "ready" /\ Has("p") /\ Has("a") /\ Has("b") /\ cpp_qkumar
Call_rkumar == pc = "ready" /\ mem.n > 0 /\ Has("a") /\ Has("b") /\ cpp_rkumar

Call_dpower ==
  pc = "ready" /\ Has("x") /\ Has("alpha") /\ Has("beta") /\ mem.lower_tail /\ cpp_dpower
Call_ppower == pc = "ready" /\ Has("x") /\ Has("alpha") /\ Has("beta") /\ cpp_ppower
Call_qpower == pc = "ready" /\ Has("p") /\ Has("alpha") /\ Has("beta") /\ cpp_qpower
Call_rpower == pc = "ready" /\ mem.n > 0 /\ Has("alpha") /\ Has("beta") /\ cpp_rpower

HasGev == Has("mu") /\ Has("sigma") /\ Has("xi")
Call_dgev == pc = "ready" /\ Has("x") /\ HasGev /\ mem.lower_tail /\ cpp_dgev
Call_pgev == pc = "ready" /\ Has("x") /\ HasGev /\ cpp_pgev
Call_qgev == pc = "ready" /\ Has("p") /\ HasGev /\ cpp_qgev
Call_rgev == pc = "ready" /\ mem.n > 0 /\ HasGev /\ cpp_rgev

Call_ddnorm ==
  pc = "ready" /\ Has("x") /\ Has("mu") /\ Has("sigma") /\ ~Has("xi") /\ mem.lower_tail
    /\ cpp_ddnorm

NextCont ==
  \/ Call_dkumar \/ Call_pkumar \/ Call_qkumar \/ Call_rkumar
  \/ Call_dpower \/ Call_ppower \/ Call_qpower \/ Call_rpower
  \/ Call_dgev \/ Call_pgev \/ Call_qgev \/ Call_rgev
  \/ Call_ddnorm

SpecCont == InitCont /\ [][NextCont]_vars

\* ------------------------------------ inverse-cumulative calls, made twice
\* the caller passes probabilities, or their logarithms under log_prob
PLin == {Zero, Rat(1, 2), Rat(3, 4), Rat(5, 4)}
PLog == {NegInf, Zero, Log(Rat(1, 2))}

QuantileArg ==
  {[NoArrays EXCEPT !.p = v, !.lower_tail = lt, !.log_prob = FALSE] :
     v \in Arrays(PLin, MaxLen), lt \in BOOLEAN}
  \cup {[NoArrays EXCEPT !.p = v, !.lower_tail = lt, !.log_prob = TRUE] :
     v \in Arrays(PLog, MaxLen), lt \in BOOLEAN}

InitQ ==
  /\ mem \in {[f EXCEPT !.prob = m] : f \in QuantileArg, m \in Arrays(ProbRows, MaxRows)}
               \cup KumarArgs(QuantileArg) \cup PowerArgs(QuantileArg)
               \cup GevArgs(QuantileArg)
  /\ InitCall

\* the caller makes the call, and makes it again with the same arguments
Twice_qcat == pc # "twice" /\ Has("p") /\ Has("prob") /\ cpp_qcat
Twice_qkumar == pc # "twice" /\ Has("p") /\ Has("a") /\ Has("b") /\ cpp_qkumar
Twice_qpower == pc # "twice" /\ Has("p") /\ Has("alpha") /\ Has("beta") /\ cpp_qpower
Twice_qgev == pc # "twice" /\ Has("p") /\ HasGev /\ cpp_qgev

NextQ == Twice_qcat \/ Twice_qkumar \/ Twice_qpower \/ Twice_qgev

SpecQ == InitQ /\ [][NextQ]_vars

\* ---------------------------------------------------- categorical: claims
\* the specification's notion of a valid probability row
RECURSIVE PrefixSum(_, _)
PrefixSum(row, j) == IF j = 0 THEN Zero ELSE Add(PrefixSum(row, j - 1), row[j])

RowValid(row) ==
  /\ \A j \in 1..Len(row) : Le(Zero, row[j]) /\ Le(row[j], One)
  /\ PrefixSum(row, Len(row)) = One

\* the row of output position i (1-based) under recycling
RowAt(i) == mem.prob[((i - 1) % Len(mem.prob)) + 1]

Called(fns) == pc # "ready" /\ call.fn \in fns

\* the value the last call used as x[i] or p[i] at output position i (1-based)
ValueAt(v, i) == IF i <= Len(v) THEN v[i] ELSE call.past[i - 1]

\* smallest 1-based index whose prefix sum is >= t, and > t
FirstReach(row, t) ==
  CHOOSE j \in 1..Len(row) :
    /\ Ge(PrefixSum(row, j), t)
    /\ \A h \in 1..(j - 1) : ~Ge(PrefixSum(row, h), t)

FirstExceed(row, t) ==
  CHOOSE j \in 1..Len(row) :
    /\ Gt(PrefixSum(row, j), t)
    /\ \A h \in 1..(j - 1) : ~Gt(PrefixSum(row, h), t)

\* C1: every array is read at index i mod its own length at output position
\* i, so never at or past its length.
C1_ReadsRecycled == \A r \in reads : r[3] = r[2] % r[4]

\* C2: in each categorical operation a position whose probability row fails
\* full validation holds the invalid result (NaN; in an integer result,
\* what the build makes of NaN).
C2_InvalidRowIsNaN ==
  Called({"dcat", "pcat", "qcat", "rcat"}) =>
    \A i \in 1..Len(out) :
      ~RowValid(RowAt(i)) =>
        IF call.fn \in {"qcat", "rcat"} THEN out[i] = call.nan_int ELSE ISNAN(out[i])

\* C7: for a valid row and p in [0,1] (after the log and tail transforms)
\* qcat returns 1 when p = 0 and else the smallest 1-based index whose
\* prefix sum is >= p.
C7_QcatFirstReach ==
  Called({"qcat"}) =>
    \A i \in 1..Len(out) :
      LET pv == ValueAt(mem.p, i) IN
        (RowValid(RowAt(i)) /\ Le(Zero, pv) /\ Le(pv, One)) =>
          out[i] = IF pv = Zero THEN 1 ELSE FirstReach(RowAt(i), pv)

\* C7 witness: qcat answered for a p that equals a prefix sum exactly, at
\* the category where that sum is first reached, and answered 1 for p = 0.
C7_Witness ==
  /\ Called({"qcat"})
  /\ Len(out) = 2 /\ Len(mem.p) = 2
  /\ RowValid(RowAt(1)) /\ RowValid(RowAt(2))
  /\ mem.p[1] = Zero /\ out[1] = 1
  /\ mem.p[2] = Rat(1, 2) /\ PrefixSum(RowAt(2), 2) = mem.p[2] /\ out[2] = 2

\* C8 as stated: for a valid row rcat returns the index in 1..k at which the
\* running sum first exceeds u.
C8_RcatFirstExceed ==
  Called({"rcat"}) =>
    \A i \in 1..Len(out) :
      RowValid(RowAt(i)) => out[i] \in 1..Len(RowAt(i)) /\ out[i] = FirstExceed(RowAt(i), draws[i])

\* C8 amended: for a valid row and a draw 0 < u < 1 rcat returns the index
\* in 1..k at which the running sum first reaches or exceeds u.
C8_RcatFirstReach ==
  Called({"rcat"}) =>
    \A i \in 1..Len(out) :
      RowValid(RowAt(i)) =>
        /\ out[i] \in 1..Len(RowAt(i))
        /\ out[i] = FirstReach(RowAt(i), draws[i])

\* C8 witness: a draw equal to a prefix sum stops at that prefix, and a draw
\* strictly between two prefix sums at the larger.
C8_Witness ==
  /\ Called({"rcat"})
  /\ Len(out) = 2
  /\ RowValid(RowAt(1)) /\ RowValid(RowAt(2))
  /\ draws[1] = PrefixSum(RowAt(1), out[1])
  /\ Gt(PrefixSum(RowAt(2), out[2]), draws[2])

\* ---------------------------------------------------- multinomial: claims
RECURSIVE SumSeq(_, _)
SumSeq(v, j) == IF j = 0 THEN 0 ELSE SumSeq(v, j - 1) + v[j]

ArgAt(v, i) == v[((i - 1) % Len(v)) + 1]

CountRow(xrow) == \A j \in 1..Len(xrow) : IsIntegral(xrow[j]) /\ Le(Zero, xrow[j])

\* C5: dmnom of a row of non-negative integer counts whose sum differs from
\* size is probability 0 (log-density -Inf), never NaN, whatever the
\* probability row is.
C5_MismatchIsZero ==
  (Called({"dmnom"}) /\ out # <<"stop">>) =>
    \A i \in 1..Len(out) :
      (CountRow(ArgAt(mem.x, i))
         /\ PrefixSum(ArgAt(mem.x, i), Len(ArgAt(mem.x, i))) # ArgAt(mem.size, i)) =>
        out[i] = IF mem.log_prob THEN NegInf ELSE Zero

\* C6: rmnom fills a position with the invalid value (what the build makes
\* of NaN in an integer) when its row fails full validation, and only then:
\* for a valid row and a non-negative integer size it returns k
\* non-negative counts that sum to size.
C6_RmnomValidity ==
  Called({"rmnom"}) =>
    \A i \in 1..Len(out) :
      IsIntegral(ArgAt(mem.size, i)) =>
        /\ ~RowValid(RowAt(i)) => (\A c \in 1..Len(out[i]) : out[i][c] = call.nan_int)
        /\ RowValid(RowAt(i)) =>
             /\ \A c \in 1..Len(out[i]) : out[i][c] >= 0
             /\ Num(SumSeq(out[i], Len(out[i]))) = ArgAt(mem.size, i)

\* C10: at output position i and category j the binomial draw has as trials
\* the budget left by categories 0..j-1 and as success probability the
\* row's own entry prob(i mod np, j).
C10_DrawUsesOwnEntry ==
  Called({"rmnom"}) =>
    \A i \in 1..Len(draws) :
      \A h \in 1..Len(draws[i]) :
        LET d == draws[i][h] IN
          /\ d[1] = h - 1
          /\ d[2] = Trunc(ArgAt(mem.size, i))
                      - SumSeq([c \in 1..(h - 1) |-> draws[i][c][4]], h - 1)
          /\ d[3] = RowAt(i)[h]


\* ------------------------------------------- continuous families: claims
QuantileCalls == {"qcat", "qkumar", "qpower", "qgev"}

\* C3: an inverse-cumulative call leaves the caller's array p as it was
\* passed, under every combination of lower_tail and log_prob, and a second
\* call with the same arguments returns what the first one returned.
C3_QuantileKeepsP ==
  Called(QuantileCalls) =>
    /\ mem.p = call.given
    /\ pc = "twice" => out = prev

\* the order the cumulative operations are to follow: the raw probability,
\* its complement for the upper tail, then the logarithm
TailThenLog(F) ==
  LET upper == IF ~mem.lower_tail THEN OneMinus(F) ELSE F
  IN  IF mem.log_prob THEN Log(upper) ELSE upper

\* F(x) at output position i of the last cumulative call
RawCumulative(i) ==
  CASE call.fn = "pkumar" -> cdf_kumar(ArgAt(mem.x, i), ArgAt(mem.a, i), ArgAt(mem.b, i))
    [] call.fn = "ppower" ->
         Exp(logcdf_power(ArgAt(mem.x, i), ArgAt(mem.alpha, i), ArgAt(mem.beta, i)))
    [] call.fn = "pgev" ->
         cdf_gev(ArgAt(mem.x, i), ArgAt(mem.mu, i), ArgAt(mem.sigma, i), ArgAt(mem.xi, i)).val

\* C4: every cumulative operation returns F(x), complemented when lower_tail
\* is false and then logged when log_prob is true: 1 - F(x) for the upper
\* tail, log(1 - F(x)) with both flags; the Power cumulative included.
C4_ComplementThenLog ==
  Called({"pkumar", "ppower", "pgev"}) =>
    \A i \in DOMAIN out : out[i] = TailThenLog(RawCumulative(i))

KumarCalls == {"dkumar", "pkumar", "qkumar", "rkumar"}
GevCalls == {"dgev", "pgev", "qgev", "rgev"}
ContinuousCalls ==
  KumarCalls \cup GevCalls \cup {"dpower", "ppower", "qpower", "rpower", "ddnorm"}

\* the parameters used at output position i lie outside their domain
InvalidParamsAt(i) ==
  CASE call.fn \in KumarCalls -> Le(ArgAt(mem.a, i), Zero) \/ Le(ArgAt(mem.b, i), Zero)
    [] call.fn \in GevCalls \cup {"ddnorm"} -> Le(ArgAt(mem.sigma, i), Zero)
    [] OTHER -> FALSE

\* C9: a call with invalid parameters at one or more positions returns (it
\* does not abort), has not-a-number at each of those positions, and raises
\* the warning exactly once, whatever the number of invalid positions.
C9_WarnsOncePerCall ==
  Called(ContinuousCalls) =>
    LET bad == {i \in DOMAIN out : InvalidParamsAt(i)}
    IN  bad # {} => /\ \A i \in bad : ISNAN(out[i])
                    /\ warnings = 1


\* 1 + xi*z of cdf_gev at output position i
GevSupportTerm(i) ==
  Add(One, Mul(ArgAt(mem.xi, i),
               Div(Sub(ArgAt(mem.x, i), ArgAt(mem.mu, i)), ArgAt(mem.sigma, i))))

\* x at position i lies at or below the lower end of the family's support
AtOrBelowSupport(i) ==
  CASE call.fn = "pkumar" -> Le(ArgAt(mem.x, i), Zero)
    [] call.fn = "ppower" -> Le(ArgAt(mem.x, i), Zero)
    [] call.fn = "pgev" -> Gt(ArgAt(mem.xi, i), Zero) /\ Le(GevSupportTerm(i), Zero)

\* x at position i lies at or above the upper end of the family's support
AtOrAboveSupport(i) ==
  CASE call.fn = "pkumar" -> Gt(ArgAt(mem.x, i), One)
    [] call.fn = "ppower" -> Ge(ArgAt(mem.x, i), ArgAt(mem.alpha, i))
    [] call.fn = "pgev" -> Lt(ArgAt(mem.xi, i), Zero) /\ Le(GevSupportTerm(i), Zero)

\* positions i and j of the last call use the same parameters
SameParams(i, j) ==
  \A arg \in {"a", "b", "alpha", "beta", "mu", "sigma", "xi"} :
    Has(arg) => ArgAt(mem[arg], i) = ArgAt(mem[arg], j)

\* C11: with valid parameters the lower-tail, non-log cumulative is never
\* NaN, is 0 at or below the lower end of the support and 1 at or above the
\* upper end (Kumaraswamy x > 1, Power x >= alpha, GEV with xi < 0 and
\* 1 + xi*z <= 0), and is non-decreasing in x for fixed parameters.
C11_ProperDistributionFunction ==
  (Called({"pkumar", "ppower", "pgev"}) /\ mem.lower_tail /\ ~mem.log_prob) =>
    /\ \A i \in DOMAIN out :
         ~InvalidParamsAt(i) =>
           /\ ~ISNAN(out[i])
           /\ AtOrBelowSupport(i) => out[i] = Zero
           /\ AtOrAboveSupport(i) => out[i] = One
    /\ \A i, j \in DOMAIN out :
         (~InvalidParamsAt(i) /\ SameParams(i, j) /\ Le(ArgAt(mem.x, i), ArgAt(mem.x, j)))
           => Le(out[i], out[j])

====
